---- MODULE Spec2Model ----
(***************************************************************************)
(* Model of the price-monitor backend: the daily refresh scheduler         *)
(* (backend/scheduler.py), the persisted product snapshots it writes       *)
(* (backend/database.py) and the on-demand product-details request path    *)
(* (backend/app copy.py).                                                  *)
(*                                                                         *)
(* Prices are whole dollars.  A discount percentage is kept as an exact    *)
(* fraction [n, d] (n/d percent, d > 0) and compared by cross              *)
(* multiplication, which is what the float comparisons of the source       *)
(* compute for the prices used here.                                       *)
(***************************************************************************)
EXTENDS Integers, Sequences, FiniteSets, TLC

\* ---------------------------------------------------------------- bounds
MaxWatch == 2        \* rows of the watchlists table
MaxWorkers == 2      \* scheduler threads that can ever be created
MaxWait == 120       \* longest wait (seconds) until the next run the loop samples
MaxRetailers == 2    \* retailer keys (or list items) of a raw payload
MaxSamples == 3      \* price entries of one retailer of a raw payload
MaxGets == 2         \* GET handlers of one user's settings running at a time
MaxSettings == 2     \* distinct non-empty settings bodies a PUT can carry

\* ------------------------------------------------------ program constants
RefreshHour == 6             \* scheduler.py:45
SleepChunk == 60             \* scheduler.py:55
BackoffSeconds == 300        \* scheduler.py:65
ProductDelay == 2            \* scheduler.py:91
ScrapeMinSeconds == 10       \* scraper.py:125
ScrapeMaxSeconds == 45       \* scraper.py:122,125,131  (30 s + 10 s + 5 s)
NoiseFloor == 1              \* scheduler.py:194
DaySeconds == 86400
RetentionDays == 30          \* scraper.py:84, buywisely.py:115  days_back
RecencyDays == 7             \* scraper.py:232, buywisely.py:166

\* Python's None for a missing record, and for a missing name
None == [none |-> TRUE]
NoName == "None"

Workers == 1..MaxWorkers
Gets == 1..MaxGets
\* settings bodies: 0 is the empty object {}, which Python takes as false
SettingsBodies == 0..MaxSettings
Urls == {"a", "b"}
Usernames == {"alice", "bob", "carol"}

\* rows of the users table (database.py User): pushover_code present or not,
\* price_limit a nullable number: <<>> for None, <<x>> for x
UserTable ==
    [u \in Usernames |->
        CASE u = "alice" -> [pushover_code |-> TRUE, price_limit |-> <<8>>]
          [] u = "bob"   -> [pushover_code |-> TRUE, price_limit |-> <<>>]
          [] OTHER       -> [pushover_code |-> FALSE, price_limit |-> <<0>>]]

\* what scrape_product_async can return for a product: price and
\* average_price (discounts 0.5 %, 3 %, 5 %, 10 % of a 200 average)
Summaries ==
    { [price |-> p, average_price |-> 200] : p \in {199, 194, 190, 180} }

Min(a, b) == IF a < b THEN a ELSE b

\* ------------------------------------------------------- discount algebra
Pct(n) == [n |-> n, d |-> 1]
Half == [n |-> 1, d |-> 2]
Gt(x, y) == x.n * y.d > y.n * x.d
Ge(x, y) == x.n * y.d >= y.n * x.d

\* the discount taken as a share of the best price instead of the average
DiscountOffBest(best, average) ==
    IF average # 0 /\ best # 0
    THEN [n |-> (average - best) * 100, d |-> best]
    ELSE Pct(0)

\* scheduler.py:125-132  ((average - best) / average) * 100, 0 when either is falsy
DiscountPercent(best, average) ==
    IF average # 0 /\ best # 0
    THEN [n |-> (average - best) * 100, d |-> average]
    ELSE Pct(0)

SnapshotDiscount(s) ==
    IF s = None THEN Pct(0) ELSE DiscountPercent(s.price, s.average_price)

\* scheduler.py:184  user.price_limit or 0
PriceLimit(user) == IF user.price_limit = <<>> THEN 0 ELSE user.price_limit[1]

ShouldNotifyNoFloor(previous, current, limit) ==
    /\ Ge(current, Pct(limit))
    /\ Gt(current, previous)

ShouldNotifyNotStrict(previous, current, limit) ==
    /\ Ge(current, Pct(limit))
    /\ Ge(current, previous)
    /\ Gt(current, Pct(NoiseFloor))

\* scheduler.py:191-195
ShouldNotify(previous, current, limit) ==
    /\ Ge(current, Pct(limit))
    /\ Gt(current, previous)
    /\ Gt(current, Pct(NoiseFloor))

\* ------------------------------------------------------------ clock maths
\* wall-clock readings the model draws from: a day number and a time of day
Clock ==
    [day : {0}, hour : 0..23, minute : {0, 1, 59}, second : {0, 59}]

SecondsOf(t) == t.day * DaySeconds + t.hour * 3600 + t.minute * 60 + t.second

NextRunNotStrict(now) ==
    [day |-> IF now.hour > RefreshHour THEN now.day + 1 ELSE now.day,
     hour |-> RefreshHour, minute |-> 0, second |-> 0]

\* scheduler.py:45-47  now.replace(hour=6, minute=0, second=0), a day later
\* when now.hour >= 6
NextRun(now) ==
    [day |-> IF now.hour >= RefreshHour THEN now.day + 1 ELSE now.day,
     hour |-> RefreshHour, minute |-> 0, second |-> 0]

\* scheduler.py:50
SleepSeconds(now) == SecondsOf(NextRun(now)) - SecondsOf(now)

\* the readings whose wait the loop model follows chunk by chunk
NowSamples == { t \in Clock : SleepSeconds(t) <= MaxWait }

\* ------------------------------------------------------------------ text
\* a string is a sequence of characters; only the letter case of a and b is
\* told apart
LowerChar(c) == CASE c = "A" -> "a" [] c = "B" -> "b" [] OTHER -> c
UpperChar(c) == CASE c = "a" -> "A" [] c = "b" -> "B" [] c = "c" -> "C" [] OTHER -> c

\* str.lower()
Lower(s) == [i \in DOMAIN s |-> LowerChar(s[i])]

\* str.title() of one word
Title(s) == [i \in DOMAIN s |-> IF i = 1 THEN UpperChar(s[i]) ELSE LowerChar(s[i])]

\* sub in s
Contains(s, sub) ==
    \E i \in 0..(Len(s) - Len(sub)) : SubSeq(s, i + 1, i + Len(sub)) = sub

\* scraper.py:175, buywisely.py:142  any(excluded in retailer_url.lower() ...)
IsExcluded(retailer_url, excluded) ==
    \E i \in DOMAIN excluded : Contains(Lower(retailer_url), excluded[i])

\* scraper.py:55-82, buywisely.py:90-113  a retailer key stands for the first
\* label of the host of a retailer URL; the name is that label title-cased
extract_retailer_name(retailer_url) == Title(retailer_url)

RetailerKeys == { <<"a", "b">>, <<"A", "b">>, <<"c">> }

ExclusionLists == { <<>>, << <<"b">> >>, << <<"A", "b">> >> }

\* --------------------------------------------------------- price entries
\* a price entry: created_at is "ok" (a timestamp string in one of the two
\* accepted formats, age days old), "missing", "unparseable" (a string in
\* another format) or "number" (not a string); base_price in cents
Entry(kind, age, price) == [created_at |-> kind, age |-> age, base_price |-> price]

EntryPool ==
    { Entry("ok", 1, 3800), Entry("ok", 3, 3500), Entry("ok", 8, 4000),
      Entry("ok", 8, 3000), Entry("ok", 31, 2000),
      Entry("ok", 3, 0), Entry("missing", 0, 3500),
      Entry("unparseable", 0, 3500), Entry("number", 0, 3500) }

RECURSIVE SeqsUpTo(_, _)
SeqsUpTo(n, S) ==
    IF n = 0 THEN {<<>>}
    ELSE LET shorter == SeqsUpTo(n - 1, S)
         IN shorter \cup
            { Append(s, x) : s \in { t \in shorter : Len(t) = n - 1 }, x \in S }

\* JSON values of a top-level mapping: a list of entries, or something else
ListOf(entries) == [isList |-> TRUE, entries |-> entries, value |-> 0]
Scalar(v) == [isList |-> FALSE, entries |-> <<>>, value |-> v]

\* item sequences of the standard shape {retailer_url: [entries]}: at most k
\* keys, none of them in used, and budget entries in all
RECURSIVE MappingItems(_, _, _)
MappingItems(k, budget, used) ==
    IF k = 0 THEN {<<>>}
    ELSE {<<>>} \cup
         UNION { { << <<key, ListOf(es)>> >> \o rest :
                     rest \in MappingItems(k - 1, budget - Len(es), used \cup {key}) } :
                 key \in RetailerKeys \ used, es \in SeqsUpTo(budget, EntryPool) }

\* one retailer with up to MaxSamples entries, or up to MaxRetailers retailers
\* sharing one entry fewer
MappingPayloads ==
    { [shape |-> "mapping", items |-> items] :
        items \in MappingItems(1, MaxSamples, {})
                    \cup MappingItems(MaxRetailers, MaxSamples - 1, {}) }

\* a single object carrying its price directly: {"price": 35.00, "created_at":
\* a timestamp one day old}
SingleObject ==
    [shape |-> "mapping",
     items |-> << << <<"price">>, Scalar(3500) >>, << <<"created_at">>, Scalar(1) >> >>]

\* a mapping with one list value and one non-list value
MixedMapping ==
    [shape |-> "mapping",
     items |-> << << <<"c">>, Scalar(0) >>,
                  << <<"a", "b">>, ListOf(<<Entry("ok", 1, 3800)>>) >> >>]

\* items of a top-level list
Item(isDict, url, hashable, prices, hasPrice, price, kind, age) ==
    [isDict |-> isDict, url |-> url, hashable |-> hashable, prices |-> prices,
     hasPrice |-> hasPrice, price |-> price, created_at |-> kind, age |-> age]

NotADict == Item(FALSE, <<>>, TRUE, <<>>, FALSE, 0, "missing", 0)
WithHistory == Item(TRUE, <<"a", "b">>, TRUE, <<Entry("ok", 1, 3800)>>, FALSE, 0, "missing", 0)
WithPrice == Item(TRUE, <<"c">>, TRUE, <<>>, TRUE, 3500, "ok", 1)
WithPriceNoTime == Item(TRUE, <<"c">>, TRUE, <<>>, TRUE, 3500, "missing", 0)
UnhashableUrl == Item(TRUE, <<"c">>, FALSE, <<>>, TRUE, 3500, "ok", 1)
NoData == Item(TRUE, <<"c">>, TRUE, <<>>, FALSE, 0, "missing", 0)

ItemPool == { NotADict, WithHistory, WithPrice, WithPriceNoTime, UnhashableUrl, NoData }

ListPayloads == { [shape |-> "list", items |-> s] : s \in SeqsUpTo(MaxRetailers, ItemPool) }

\* neither a mapping nor a list
ScalarPayload == [shape |-> "scalar", items |-> <<>>]

RawPayloads ==
    MappingPayloads \cup ListPayloads \cup {SingleObject, MixedMapping, ScalarPayload}

\* ------------------------------------------------------ parse_price_data
\* the outcome of a call that raised
Raised == [raised |-> TRUE]

\* d[k] = v on a dict kept as a sequence of <<key, value>> in insertion order
DictSet(d, k, v) ==
    IF \E i \in DOMAIN d : d[i][1] = k
    THEN [i \in DOMAIN d |-> IF d[i][1] = k THEN <<k, v>> ELSE d[i]]
    ELSE Append(d, <<k, v>>)

\* scraper.py:16-24, buywisely.py:69-72  keep the list values of a mapping
RECURSIVE ParseMapping(_)
ParseMapping(items) ==
    IF items = <<>> THEN <<>>
    ELSE IF Head(items)[2].isList
         THEN << <<Head(items)[1], Head(items)[2].entries>> >> \o ParseMapping(Tail(items))
         ELSE ParseMapping(Tail(items))

\* an item of a list that parse_price_data stores under its key
Stores(item) == item.isDict /\ (item.prices # <<>> \/ item.hasPrice)

\* parsed_data[retailer_url] = ... with a key that cannot be hashed
ParseRaises(items) == \E i \in DOMAIN items : Stores(items[i]) /\ ~items[i].hashable

\* scraper.py:29-43  items of a list, in order.  A missing created_at becomes
\* now().isoformat(), which none of the two formats of the analysis accepts.
RECURSIVE ParseList(_, _)
ParseList(items, parsed) ==
    IF items = <<>> THEN parsed
    ELSE LET item == Head(items)
             price_entry ==
                 Entry(IF item.created_at = "missing" THEN "unparseable"
                       ELSE item.created_at, item.age, item.price)
         IN IF ~Stores(item) THEN ParseList(Tail(items), parsed)
            ELSE ParseList(Tail(items),
                           DictSet(parsed, item.url,
                                   IF item.prices # <<>> THEN item.prices
                                   ELSE <<price_entry>>))

\* buywisely.py:74-85  the same, with a missing created_at left None
RECURSIVE ParseListDirect(_, _)
ParseListDirect(items, parsed) ==
    IF items = <<>> THEN parsed
    ELSE LET item == Head(items)
             price_entry == Entry(item.created_at, item.age, item.price)
         IN IF ~Stores(item) THEN ParseListDirect(Tail(items), parsed)
            ELSE ParseListDirect(Tail(items),
                                 DictSet(parsed, item.url,
                                         IF item.prices # <<>> THEN item.prices
                                         ELSE <<price_entry>>))

\* scraper.py:8-53  every exception ends in the handler of 50-53: {}
parse_price_data(raw) ==
    CASE raw.shape = "mapping" -> ParseMapping(raw.items)
      [] raw.shape = "list" ->
             IF ParseRaises(raw.items) THEN <<>> ELSE ParseList(raw.items, <<>>)
      [] OTHER -> <<>>

\* buywisely.py:63-88  no handler: an exception leaves the function (see
\* ParseRaises)
parse_price_data_direct(raw) ==
    CASE raw.shape = "mapping" -> ParseMapping(raw.items)
      [] raw.shape = "list" -> ParseListDirect(raw.items, <<>>)
      [] OTHER -> <<>>

\* ------------------------------------------------------------- analysis
\* an entry kept whatever its price
RetainedAnyPrice(e) ==
    e.created_at = "ok" /\ e.age <= RetentionDays

\* scraper.py:191-223, buywisely.py:148-163  an entry that passes the
\* timestamp, retention and price tests
Retained(e) ==
    e.created_at = "ok" /\ e.age <= RetentionDays /\ e.base_price > 0

\* scraper.py:232, buywisely.py:166
Recent(e) == e.age <= RecencyDays

RECURSIVE PricesOf(_)
PricesOf(entries) ==
    IF entries = <<>> THEN <<>>
    ELSE <<Head(entries).base_price>> \o PricesOf(Tail(entries))

\* scraper.py:228  retailer_prices
RetailerPrices(entries) == PricesOf(SelectSeq(entries, Retained))

\* scraper.py:233  recent_prices
RecentPrices(entries) ==
    PricesOf(SelectSeq(entries, LAMBDA e : Retained(e) /\ Recent(e)))

RECURSIVE Sum(_)
Sum(s) == IF s = <<>> THEN 0 ELSE Head(s) + Sum(Tail(s))

RECURSIVE MinOf(_)
MinOf(s) == IF Len(s) = 1 THEN s[1] ELSE Min(Head(s), MinOf(Tail(s)))

\* sum(prices) / len(prices), kept exact
Mean(s) == [n |-> Sum(s), d |-> Len(s)]

Truncate2(m) == m.n \div m.d

\* round(x, 2) of an amount of m.n / m.d cents: the nearest cent, the even one
\* when exactly halfway
Round2(m) ==
    LET q == m.n \div m.d
        r == m.n % m.d
    IN IF 2 * r < m.d THEN q
       ELSE IF 2 * r > m.d THEN q + 1
       ELSE IF q % 2 = 0 THEN q ELSE q + 1

Aggregate(name, url, price, avg) ==
    [name |-> name, url |-> url, price |-> price, avg_price |-> avg]

\* retailer_current_prices[name] = {...}: a dict keyed by the retailer name
SetAggregate(rcp, a) ==
    IF \E i \in DOMAIN rcp : rcp[i].name = a.name
    THEN [i \in DOMAIN rcp |-> IF rcp[i].name = a.name THEN a ELSE rcp[i]]
    ELSE Append(rcp, a)

\* scraper.py:171-253  first pass over the retailers
RECURSIVE CurrentPrices(_, _, _)
CurrentPrices(data, excluded, rcp) ==
    IF data = <<>> THEN rcp
    ELSE LET retailer_url == Head(data)[1]
             entries == Head(data)[2]
             retailer_prices == RetailerPrices(entries)
             recent_prices == RecentPrices(entries)
         IN IF IsExcluded(retailer_url, excluded) \/ recent_prices = <<>>
            THEN CurrentPrices(Tail(data), excluded, rcp)
            ELSE CurrentPrices(Tail(data), excluded,
                     SetAggregate(rcp,
                         Aggregate(extract_retailer_name(retailer_url), retailer_url,
                                   MinOf(recent_prices), Mean(retailer_prices))))

\* scraper.py:229, buywisely.py:165  the pool of retained prices
RECURSIVE HistoricalPrices(_, _)
HistoricalPrices(data, excluded) ==
    IF data = <<>> THEN <<>>
    ELSE (IF IsExcluded(Head(data)[1], excluded) THEN <<>>
          ELSE RetailerPrices(Head(data)[2]))
         \o HistoricalPrices(Tail(data), excluded)

\* scraper.py:295  ts > most_recent_date
Later(e, f) == e.age < f.age

\* scraper.py:273-300  the retained entry kept by the loop: a later one
\* replaces the one held
RECURSIVE MostRecent(_, _)
MostRecent(entries, held) ==
    IF entries = <<>> THEN held
    ELSE LET e == Head(entries)
         IN IF Retained(e) /\ (held = None \/ Later(e, held))
            THEN MostRecent(Tail(entries), e)
            ELSE MostRecent(Tail(entries), held)

\* scraper.py:306  'avg_price' of a retailer taken from its most recent entry
FallbackAverage(entries, most_recent_price) == [n |-> most_recent_price, d |-> 1]

\* scraper.py:266-308  second pass, when no retailer had a recent price
RECURSIVE FallbackPrices(_, _, _)
FallbackPrices(data, excluded, rcp) ==
    IF data = <<>> THEN rcp
    ELSE LET retailer_url == Head(data)[1]
             e == MostRecent(Head(data)[2], None)
         IN IF IsExcluded(retailer_url, excluded) \/ e = None
            THEN FallbackPrices(Tail(data), excluded, rcp)
            ELSE FallbackPrices(Tail(data), excluded,
                     SetAggregate(rcp,
                         Aggregate(extract_retailer_name(retailer_url), retailer_url,
                                   e.base_price,
                                   FallbackAverage(Head(data)[2], e.base_price))))

FirstRetailer(s) == s[1]

\* scraper.py:318-319  min(..., key=price): the first of the cheapest
BestRetailer(s) ==
    s[CHOOSE i \in DOMAIN s :
        /\ \A j \in DOMAIN s : s[j].price >= s[i].price
        /\ \A j \in 1..(i - 1) : s[j].price > s[i].price]

Analysis(result, data, rcp) ==
    [result |-> result, data |-> data, retailer_current_prices |-> rcp]

\* scraper.py:145-342  scrape_product_async from the intercepted payload on
scrape_product_async(raw, excluded) ==
    LET data == parse_price_data(raw)
        historical_prices == HistoricalPrices(data, excluded)
        recent == CurrentPrices(data, excluded, <<>>)
        rcp == IF recent = <<>> /\ historical_prices # <<>>
               THEN FallbackPrices(data, excluded, <<>>)
               ELSE recent
        best_retailer == BestRetailer(rcp)
    IN IF data = <<>> \/ historical_prices = <<>> THEN Analysis(None, data, recent)
       ELSE IF rcp = <<>> THEN Analysis(None, data, rcp)
       ELSE Analysis([price |-> best_retailer.price,
                      retailer |-> best_retailer.url,
                      retailer_name |-> best_retailer.name,
                      average_price |-> Round2(Mean(historical_prices)),
                      total_prices_analyzed |-> Len(historical_prices),
                      retailers_analyzed |-> Len(rcp)],
                     data, rcp)

\* buywisely.py:147-150, 152  '.' in ts_str on a timestamp that is not a
\* string raises TypeError, which except ValueError does not catch
RaisesOn(entries) == \E i \in DOMAIN entries : entries[i].created_at = "number"

\* buywisely.py:137-178  retailers_summary
RECURSIVE RetailersSummary(_, _)
RetailersSummary(data, excluded) ==
    IF data = <<>> THEN <<>>
    ELSE LET url == Head(data)[1]
             prices == RetailerPrices(Head(data)[2])
             recent == RecentPrices(Head(data)[2])
         IN (IF IsExcluded(url, excluded) \/ recent = <<>> THEN <<>>
             ELSE << Aggregate(extract_retailer_name(url), url, MinOf(recent),
                               Mean(prices)) >>)
            \o RetailersSummary(Tail(data), excluded)

\* list.sort(key=price): stable
RECURSIVE SortByPrice(_)
SortByPrice(s) ==
    IF s = <<>> THEN <<>>
    ELSE LET first == BestRetailer(s)
             i == CHOOSE i \in DOMAIN s :
                    s[i] = first /\ \A j \in 1..(i - 1) : s[j].price > first.price
         IN <<first>> \o SortByPrice(SubSeq(s, 1, i - 1) \o SubSeq(s, i + 1, Len(s)))

\* buywisely.py:115-206  analyze_product from the fetched payload on
analyze_product(raw, excluded) ==
    LET data == parse_price_data_direct(raw)
        raises == \E i \in DOMAIN data :
                     ~IsExcluded(data[i][1], excluded) /\ RaisesOn(data[i][2])
        all_prices == HistoricalPrices(data, excluded)
        retailers_summary == SortByPrice(RetailersSummary(data, excluded))
        best == retailers_summary[1]
    IN IF raw.shape = "list" /\ ParseRaises(raw.items) THEN Analysis(Raised, <<>>, <<>>)
       ELSE IF data = <<>> THEN Analysis(None, data, <<>>)
       ELSE IF raises THEN Analysis(Raised, data, <<>>)
       ELSE IF all_prices = <<>> \/ retailers_summary = <<>>
            THEN Analysis(None, data, retailers_summary)
       ELSE Analysis([best_price |-> best.price,
                      best_retailer |-> best.name,
                      best_url |-> best.url,
                      average_price |-> Round2(Mean(all_prices)),
                      retailers_analyzed |-> Len(retailers_summary),
                      total_prices |-> Len(all_prices),
                      all_retailers |-> retailers_summary],
                     data, retailers_summary)

\* ------------------------------------------------------------------ state
VARIABLES
    running,        \* self.running
    thread,         \* self.thread: 0 (None) or the worker last created
    pc,             \* per worker: position in _run_scheduler and its callees
    sleep_seconds,  \* per worker: local of _run_scheduler
    session,        \* per worker: the thread's db session: "none", "ok", "failed"
    unique_urls,    \* per worker: URLs of the cycle not yet processed
    url_to_users,   \* per worker: url -> sequence of usernames
    url,            \* per worker: the URL being refreshed
    previous,       \* per worker: snapshot read at the start of the refresh
    scraped_data,   \* per worker: result of scrape_product_async
    usernames,      \* per worker: usernames still to check for this URL
    watchlist,      \* rows of the watchlists table: <<username, url>>
    persisted,      \* product_details table: url -> snapshot or None
    is_recent,      \* url -> the row's last_updated is less than an hour old
    joining,        \* a stop() call waits in thread.join(): 0 or the worker joined
    od_url,         \* URL an on-demand request is fetching, or NoName
    \* history variables, used only to state properties
    lag,            \* per worker: seconds spent since a stop request it has not observed
    stopPending,    \* per worker: a stop was requested and not yet observed
    fetchCount,     \* per worker: url -> fetches in the current cycle
    outcome,        \* per worker: how the refresh of url ended
    evaluated,      \* per worker: users checked for url in the current cycle
    sent,           \* per worker: dispatches for url in the current cycle <<user, ok>>
    lastEval,       \* per worker: the last run of _check_and_notify_user
    lastNotified,   \* <<user, url>> -> discount of the last delivered notification
    undelivered,    \* <<user, url>> -> the last check dispatched and the dispatch failed
    overtaken,      \* per worker: an on-demand fetch of url ended after this worker's
    nr_now,         \* next-run calculation: the clock reading
    nr_next,        \* next-run calculation: the result or None
    raw_data,       \* analysis: the payload fetched for a product, or None
    excluded_retailers,      \* analysis: the caller's exclusion list
    data,           \* analysis: local, the parsed payload
    retailer_current_prices, \* analysis: local, the per-retailer aggregates
                    \* (retailers_summary in analyze_product)
    result,         \* analysis: what the call returned, None, or Raised
    caller,         \* analysis: "none", "scraper", "direct" or "scheduler"
    product,        \* analysis: the stored row of the product, or None
    product_before, \* history: product before the analysis
    notified,       \* analysis: the scheduled refresh sent the watching user a
                    \* notification
    users_file,     \* settings: the user's entry of the users file, 0 for {}
    user_cache,     \* settings: the data of the cache entry "user:<name>" as <<v>>,
                    \* <<>> when there is no entry
    get_pc,         \* settings: position of each GET handler
    user_data,      \* settings: what each GET handler read from the users file
    put_pc,         \* settings: position of the PUT handler
    response,       \* history: the body each GET handler returned
    expect,         \* history: the settings of the last completed PUT when the
                    \* GET arrived, <<>> when a PUT ran during the GET
    put_done        \* history: a PUT has completed

vars == <<running, thread, pc, sleep_seconds, session, unique_urls, url_to_users,
          url, previous, scraped_data, usernames, watchlist, persisted, is_recent,
          joining, od_url, lag, stopPending, fetchCount, outcome, evaluated, sent,
          lastEval, lastNotified, undelivered, overtaken, nr_now, nr_next, raw_data,
          excluded_retailers, data, retailer_current_prices, result, caller,
          product, product_before, notified, users_file, user_cache, get_pc,
          user_data, put_pc, response, expect, put_done>>

ctlVars == <<running, thread, joining>>
cycleVars == <<unique_urls, url_to_users, url, previous, scraped_data, usernames>>
dbVars == <<watchlist, persisted, is_recent>>
nrVars == <<nr_now, nr_next>>
anVars == <<raw_data, excluded_retailers, data, retailer_current_prices, result,
            caller, product, product_before, notified>>
usVars == <<users_file, user_cache, get_pc, user_data, put_pc, response, expect,
            put_done>>
cycleHist == <<fetchCount, outcome, evaluated, sent, lastEval>>
notifyHist == <<lastNotified, undelivered>>
lagHist == <<lag, stopPending>>

Pairs == Usernames \X Urls

Rank(p) ==
    3 * (CASE p[1] = "alice" -> 0 [] p[1] = "bob" -> 1 [] OTHER -> 2)
      + (IF p[2] = "a" THEN 0 ELSE 1)

\* watchlists tables of at most n rows.  The table has no uniqueness
\* constraint (database.py:45-50), so a row may repeat.  Rows are listed in one
\* fixed order: the order of the rows only fixes the order in which the users
\* of one URL are checked.
RECURSIVE RowSeqs(_, _)
RowSeqs(n, pairs) ==
    IF n = 0 THEN {<<>>}
    ELSE LET shorter == RowSeqs(n - 1, pairs)
         IN shorter \cup
            { Append(s, r) : s \in { t \in shorter : Len(t) = n - 1 },
                             r \in pairs } 

Sorted(s) == \A i \in 1..(Len(s) - 1) : Rank(s[i]) <= Rank(s[i + 1])

Watchlists(pairs) == { s \in RowSeqs(MaxWatch, pairs) : Sorted(s) }

Range(s) == { s[i] : i \in 1..Len(s) }

\* scheduler.py:75
UniqueUrls(rows) == { r[2] : r \in Range(rows) }

RECURSIVE UsersOf(_, _)
\* scheduler.py:80-84
UsersOf(rows, u) ==
    IF rows = <<>> THEN <<>>
    ELSE IF Head(rows)[2] = u
         THEN <<Head(rows)[1]>> \o UsersOf(Tail(rows), u)
         ELSE UsersOf(Tail(rows), u)

NoEval == [user |-> NoName]

\* ------------------------------------------- analysis of a fetched payload
\* the stored row of the product the payload is about, when there is one
PriorSnapshot == [price |-> 4000, average_price |-> 4000]

AnalysisIdle ==
    /\ raw_data = None
    /\ excluded_retailers = <<>>
    /\ data = <<>>
    /\ retailer_current_prices = <<>>
    /\ result = None
    /\ caller = "none"
    /\ product = None
    /\ product_before = None
    /\ notified = FALSE

\* no settings request in progress over a users file without an entry for
\* the user and an empty cache
SettingsIdle ==
    /\ users_file = 0
    /\ user_cache = <<>>
    /\ get_pc = [g \in Gets |-> "idle"]
    /\ user_data = [g \in Gets |-> 0]
    /\ put_pc = "idle"
    /\ response = [g \in Gets |-> <<>>]
    /\ expect = [g \in Gets |-> <<>>]
    /\ put_done = FALSE

InitCommon ==
    /\ running = FALSE
    /\ thread = 0
    /\ pc = [w \in Workers |-> "idle"]
    /\ sleep_seconds = [w \in Workers |-> 0]
    /\ session = [w \in Workers |-> "none"]
    /\ unique_urls = [w \in Workers |-> {}]
    /\ url_to_users = [w \in Workers |-> [u \in Urls |-> <<>>]]
    /\ url = [w \in Workers |-> NoName]
    /\ previous = [w \in Workers |-> None]
    /\ scraped_data = [w \in Workers |-> None]
    /\ usernames = [w \in Workers |-> <<>>]
    /\ persisted = [u \in Urls |-> None]
    /\ is_recent = [u \in Urls |-> FALSE]
    /\ joining = 0
    /\ od_url = NoName
    /\ lag = [w \in Workers |-> 0]
    /\ stopPending = [w \in Workers |-> FALSE]
    /\ fetchCount = [w \in Workers |-> [u \in Urls |-> 0]]
    /\ outcome = [w \in Workers |-> "pending"]
    /\ evaluated = [w \in Workers |-> {}]
    /\ sent = [w \in Workers |-> {}]
    /\ lastEval = [w \in Workers |-> NoEval]
    /\ lastNotified = [p \in Pairs |-> None]
    /\ undelivered = [p \in Pairs |-> FALSE]
    /\ overtaken = [w \in Workers |-> FALSE]
    /\ SettingsIdle

\* the state after construction (scheduler.py:18-20) over a database holding
\* some watchlist and no product snapshot
Init ==
    /\ InitCommon
    /\ watchlist \in Watchlists(Pairs)
    /\ nr_now = None
    /\ nr_next = None
    /\ AnalysisIdle

\* ---------------------------------------------------------------- helpers
LagCap == SleepChunk + 1

Alive(w) == pc[w] \notin {"idle", "exited"}

\* worker w spends d seconds without looking at self.running
Spend(w, d) ==
    lag' = [lag EXCEPT ![w] = IF stopPending[w] THEN Min(@ + d, LagCap) ELSE @]

\* worker w reads self.running
Observe(w) ==
    IF running
    THEN UNCHANGED lagHist
    ELSE /\ lag' = [lag EXCEPT ![w] = 0]
         /\ stopPending' = [stopPending EXCEPT ![w] = FALSE]

\* --------------------------------------------------------- start and stop
\* scheduler.py:22-28
Start ==
    /\ ~running
    /\ \E w \in Workers :
        /\ pc[w] = "idle"
        /\ \A v \in Workers : v < w => pc[v] # "idle"
        /\ running' = TRUE
        /\ thread' = w
        /\ pc' = [pc EXCEPT ![w] = "loop"]
    /\ UNCHANGED <<joining, sleep_seconds, session, cycleVars, dbVars, od_url,
                   nrVars, anVars, usVars, cycleHist, notifyHist, overtaken, lagHist>>

\* scheduler.py:30-34  running = False, then wait for the thread
Stop ==
    /\ joining = 0
    /\ running' = FALSE
    /\ joining' = thread
    /\ stopPending' = [w \in Workers |-> stopPending[w] \/ (running /\ Alive(w))]
    /\ lag' = [w \in Workers |-> IF stopPending[w] THEN lag[w] ELSE 0]
    /\ UNCHANGED <<thread, pc, sleep_seconds, session, cycleVars, dbVars, od_url,
                   nrVars, anVars, usVars, cycleHist, notifyHist, overtaken>>

\* scheduler.py:34-35  thread.join() returns once that thread has ended
StopReturn ==
    /\ joining # 0
    /\ pc[joining] = "exited"
    /\ joining' = 0
    /\ UNCHANGED <<running, thread, pc, sleep_seconds, session, cycleVars, dbVars,
                   od_url, nrVars, anVars, usVars, cycleHist, notifyHist, overtaken, lagHist>>

\* ------------------------------------------------------- _run_scheduler
\* scheduler.py:39  while self.running
LoopCheck(w) ==
    /\ pc[w] = "loop"
    /\ pc' = [pc EXCEPT ![w] = IF running THEN "calc" ELSE "exited"]
    /\ Observe(w)
    /\ UNCHANGED <<ctlVars, sleep_seconds, session, cycleVars, dbVars, od_url,
                   nrVars, anVars, usVars, cycleHist, notifyHist, overtaken>>

\* scheduler.py:42-51  read the clock, compute next_run and sleep_seconds
CalcNextRun(w) ==
    /\ pc[w] = "calc"
    /\ \E now \in NowSamples :
        sleep_seconds' = [sleep_seconds EXCEPT ![w] = SleepSeconds(now)]
    /\ pc' = [pc EXCEPT ![w] = "wait"]
    /\ UNCHANGED <<ctlVars, session, cycleVars, dbVars, od_url, nrVars, anVars, usVars,
                   cycleHist, notifyHist, overtaken, lagHist>>

\* scheduler.py:54  while sleep_seconds > 0 and self.running
WaitCheck(w) ==
    /\ pc[w] = "wait"
    /\ pc' = [pc EXCEPT ![w] =
                IF sleep_seconds[w] > 0 /\ running THEN "sleep" ELSE "due"]
    /\ IF sleep_seconds[w] > 0 THEN Observe(w) ELSE UNCHANGED lagHist
    /\ UNCHANGED <<ctlVars, sleep_seconds, session, cycleVars, dbVars, od_url,
                   nrVars, anVars, usVars, cycleHist, notifyHist, overtaken>>

\* scheduler.py:55-57  one chunk of at most 60 seconds
SleepOneChunk(w) ==
    /\ pc[w] = "sleep"
    /\ LET chunk_sleep == Min(sleep_seconds[w], SleepChunk)
       IN /\ sleep_seconds' = [sleep_seconds EXCEPT ![w] = @ - chunk_sleep]
          /\ Spend(w, chunk_sleep)
    /\ pc' = [pc EXCEPT ![w] = "wait"]
    /\ UNCHANGED <<ctlVars, session, cycleVars, dbVars, od_url, nrVars, anVars, usVars,
                   cycleHist, notifyHist, overtaken, stopPending>>

\* scheduler.py:59-61  if self.running: run the daily refresh
DueCheck(w) ==
    /\ pc[w] = "due"
    /\ pc' = [pc EXCEPT ![w] = IF running THEN "open" ELSE "loop"]
    /\ Observe(w)
    /\ UNCHANGED <<ctlVars, sleep_seconds, session, cycleVars, dbVars, od_url,
                   nrVars, anVars, usVars, cycleHist, notifyHist, overtaken>>

\* scheduler.py:63-65  an exception reached the loop: sleep 300 s, loop again
Backoff(w) ==
    /\ pc[w] = "backoff"
    /\ Spend(w, BackoffSeconds)
    /\ pc' = [pc EXCEPT ![w] = "loop"]
    /\ UNCHANGED <<ctlVars, sleep_seconds, session, cycleVars, dbVars, od_url,
                   nrVars, anVars, usVars, cycleHist, notifyHist, overtaken, stopPending>>

\* --------------------------------------------------- _daily_price_refresh
\* scheduler.py:67-71  db = SessionLocal() stands before the try block
OpenSession(w) ==
    /\ pc[w] = "open"
    /\ \/ /\ session' = [session EXCEPT ![w] = "ok"]
          /\ pc' = [pc EXCEPT ![w] = "query"]
       \/ /\ pc' = [pc EXCEPT ![w] = "backoff"]
          /\ UNCHANGED session
    /\ UNCHANGED <<ctlVars, sleep_seconds, cycleVars, dbVars, od_url, nrVars, anVars, usVars,
                   cycleHist, notifyHist, overtaken, lagHist>>

\* scheduler.py:74-84  read the watchlists, or fail (scheduler.py:97-98)
QueryWatchlist(w) ==
    /\ pc[w] = "query"
    /\ \/ /\ unique_urls' = [unique_urls EXCEPT ![w] = UniqueUrls(watchlist)]
          /\ url_to_users' = [url_to_users EXCEPT ![w] =
                                [u \in Urls |-> UsersOf(watchlist, u)]]
          /\ pc' = [pc EXCEPT ![w] = "next"]
       \/ /\ pc' = [pc EXCEPT ![w] = "failed"]
          /\ UNCHANGED <<unique_urls, url_to_users>>
    /\ UNCHANGED <<ctlVars, sleep_seconds, session, url, previous, scraped_data,
                   usernames, dbVars, od_url, nrVars, anVars, usVars, cycleHist, notifyHist,
                   overtaken, lagHist>>

\* scheduler.py:87-89  for url in unique_urls (a set: any order); 95 when done
NextUrl(w) ==
    /\ pc[w] = "next"
    /\ IF unique_urls[w] = {}
       THEN /\ pc' = [pc EXCEPT ![w] = "close"]
            /\ url' = [url EXCEPT ![w] = NoName]
            /\ UNCHANGED unique_urls
       ELSE \E u \in unique_urls[w] :
            /\ url' = [url EXCEPT ![w] = u]
            /\ unique_urls' = [unique_urls EXCEPT ![w] = @ \ {u}]
            /\ pc' = [pc EXCEPT ![w] = "read"]
    /\ outcome' = [outcome EXCEPT ![w] = "pending"]
    /\ evaluated' = [evaluated EXCEPT ![w] = {}]
    /\ sent' = [sent EXCEPT ![w] = {}]
    /\ overtaken' = [overtaken EXCEPT ![w] = FALSE]
    /\ UNCHANGED <<ctlVars, sleep_seconds, session, url_to_users, previous,
                   scraped_data, usernames, dbVars, od_url, nrVars, anVars, usVars, fetchCount,
                   lastEval, notifyHist, lagHist>>

\* scheduler.py:91  await asyncio.sleep(2)
Delay(w) ==
    /\ pc[w] = "delay"
    /\ Spend(w, ProductDelay)
    /\ pc' = [pc EXCEPT ![w] = "next"]
    /\ UNCHANGED <<ctlVars, sleep_seconds, session, cycleVars, dbVars, od_url,
                   nrVars, anVars, usVars, cycleHist, notifyHist, overtaken, stopPending>>

\* a failed query that ends the worker's loop with the cycle
CloseSessionEndsLoop(w) ==
    /\ pc[w] \in {"close", "failed"}
    /\ session' = [session EXCEPT ![w] = "none"]
    /\ pc' = [pc EXCEPT ![w] = IF pc[w] = "failed" THEN "exited" ELSE "loop"]
    /\ url_to_users' = [url_to_users EXCEPT ![w] = [u \in Urls |-> <<>>]]
    /\ fetchCount' = [fetchCount EXCEPT ![w] = [u \in Urls |-> 0]]
    /\ UNCHANGED <<ctlVars, sleep_seconds, unique_urls, url, previous, scraped_data,
                   usernames, dbVars, od_url, nrVars, anVars, usVars, outcome, evaluated, sent,
                   lastEval, notifyHist, overtaken, lagHist>>

\* scheduler.py:95-100  (or 97-100 after a failed query)  db.close(), back to
\* the scheduler loop
CloseSession(w) ==
    /\ pc[w] \in {"close", "failed"}
    /\ session' = [session EXCEPT ![w] = "none"]
    /\ pc' = [pc EXCEPT ![w] = "loop"]
    /\ url_to_users' = [url_to_users EXCEPT ![w] = [u \in Urls |-> <<>>]]
    /\ fetchCount' = [fetchCount EXCEPT ![w] = [u \in Urls |-> 0]]
    /\ UNCHANGED <<ctlVars, sleep_seconds, unique_urls, url, previous, scraped_data,
                   usernames, dbVars, od_url, nrVars, anVars, usVars, outcome, evaluated, sent,
                   lastEval, notifyHist, overtaken, lagHist>>

\* -------------------------------------------------- _refresh_product_price
\* a refresh that returns straight to the loop over the URLs
ReturnNoDelay(w, o) ==
    /\ pc' = [pc EXCEPT ![w] = "next"]
    /\ outcome' = [outcome EXCEPT ![w] = o]
    /\ previous' = [previous EXCEPT ![w] = None]
    /\ scraped_data' = [scraped_data EXCEPT ![w] = None]
    /\ lastEval' = [lastEval EXCEPT ![w] = NoEval]

\* the refresh of url[w] returns: its locals are gone
Return(w, o) ==
    /\ pc' = [pc EXCEPT ![w] = "delay"]
    /\ outcome' = [outcome EXCEPT ![w] = o]
    /\ previous' = [previous EXCEPT ![w] = None]
    /\ scraped_data' = [scraped_data EXCEPT ![w] = None]
    /\ lastEval' = [lastEval EXCEPT ![w] = NoEval]

\* the refresh of url[w] ends without checking any user
ClearUndelivered(w) ==
    undelivered' = [p \in Pairs |-> IF p[2] = url[w] THEN FALSE ELSE undelivered[p]]

\* scheduler.py:106-110  read the stored snapshot; a session left failed by an
\* earlier commit raises here and the refresh ends in the handler of 169-170
RefreshRead(w) ==
    /\ pc[w] = "read"
    /\ IF session[w] = "ok"
       THEN /\ previous' = [previous EXCEPT ![w] = persisted[url[w]]]
            /\ pc' = [pc EXCEPT ![w] = "scrape"]
            /\ UNCHANGED <<outcome, undelivered, scraped_data, lastEval>>
       ELSE /\ Return(w, "skipped")
            /\ ClearUndelivered(w)
    /\ UNCHANGED <<ctlVars, sleep_seconds, session, unique_urls, url_to_users, url,
                   usernames, dbVars, od_url, nrVars, anVars, usVars, fetchCount, evaluated, sent,
                   lastNotified, overtaken, lagHist>>

\* a scrape whose empty result wipes the stored snapshot
ScrapeDropsSnapshot(w) ==
    /\ pc[w] = "scrape"
    /\ fetchCount' = [fetchCount EXCEPT ![w][url[w]] = Min(@ + 1, 2)]
    /\ \/ /\ Return(w, "nodata")
          /\ ClearUndelivered(w)
          /\ persisted' = [persisted EXCEPT ![url[w]] = None]
          /\ UNCHANGED lag
       \/ \E r \in Summaries, seconds \in {ScrapeMinSeconds, ScrapeMaxSeconds} :
          /\ scraped_data' = [scraped_data EXCEPT ![w] = r]
          /\ pc' = [pc EXCEPT ![w] = "commit"]
          /\ Spend(w, seconds)
          /\ UNCHANGED <<outcome, undelivered, previous, lastEval, persisted>>
    /\ UNCHANGED <<ctlVars, sleep_seconds, session, unique_urls, url_to_users, url,
                   usernames, watchlist, is_recent, od_url, nrVars, anVars, usVars, evaluated,
                   sent, lastNotified, overtaken, stopPending>>

\* scheduler.py:113-117  scrape_product_async returns a result or None (it
\* catches its own errors, scraper.py:339-342)
Scrape(w) ==
    /\ pc[w] = "scrape"
    /\ fetchCount' = [fetchCount EXCEPT ![w][url[w]] = Min(@ + 1, 2)]
    /\ \/ /\ Return(w, "nodata")
          /\ ClearUndelivered(w)
          /\ UNCHANGED lag
       \/ \E r \in Summaries, seconds \in {ScrapeMinSeconds, ScrapeMaxSeconds} :
          /\ scraped_data' = [scraped_data EXCEPT ![w] = r]
          /\ pc' = [pc EXCEPT ![w] = "commit"]
          /\ Spend(w, seconds)
          /\ UNCHANGED <<outcome, undelivered, previous, lastEval>>
    /\ UNCHANGED <<ctlVars, sleep_seconds, session, unique_urls, url_to_users, url,
                   usernames, dbVars, od_url, nrVars, anVars, usVars, evaluated, sent,
                   lastNotified, overtaken, stopPending>>

CommitRaisesThenNotifies(w) ==
    /\ \E after \in {"ok", "failed"} :
         /\ previous[w] = None /\ persisted[url[w]] # None => after = "failed"
         /\ session' = [session EXCEPT ![w] = after]
    /\ pc' = [pc EXCEPT ![w] = "notify"]
    /\ usernames' = [usernames EXCEPT ![w] = url_to_users[w][url[w]]]
    /\ UNCHANGED <<persisted, is_recent, outcome, undelivered, previous, scraped_data,
                   lastEval>>

\* scheduler.py:157, 169-170  db.commit() raises: nothing is stored, the
\* handler logs and the refresh of this URL ends.  No rollback is issued, so
\* the session may be left unusable for the rest of the cycle (the insert of a
\* row that another writer inserted meanwhile always leaves it so).
CommitRaises(w) ==
    /\ \E after \in {"ok", "failed"} :
         /\ previous[w] = None /\ persisted[url[w]] # None => after = "failed"
         /\ session' = [session EXCEPT ![w] = after]
    /\ Return(w, "commitfail")
    /\ ClearUndelivered(w)
    /\ UNCHANGED <<persisted, is_recent, usernames>>

\* scheduler.py:119-157  compute the prices, overwrite or insert the snapshot,
\* commit
Commit(w) ==
    /\ pc[w] = "commit"
    /\ \/ /\ previous[w] = None => persisted[url[w]] = None
          /\ persisted' = [persisted EXCEPT ![url[w]] = scraped_data[w]]
          /\ is_recent' = [is_recent EXCEPT ![url[w]] = TRUE]
          /\ usernames' = [usernames EXCEPT ![w] = url_to_users[w][url[w]]]
          /\ pc' = [pc EXCEPT ![w] = "notify"]
          /\ UNCHANGED <<session, outcome, undelivered, previous, scraped_data,
                         lastEval>>
       \/ CommitRaises(w)
    /\ UNCHANGED <<ctlVars, sleep_seconds, unique_urls, url_to_users, url,
                   watchlist, od_url, nrVars, anVars, usVars, fetchCount, evaluated,
                   sent, lastNotified, overtaken, lagHist>>

\* ------------------------------------------------- _check_and_notify_user
\* the record kept of one run of _check_and_notify_user
Evaluation(w, u, token, notify, success) ==
    [user |-> u, token |-> token,
     previous |-> SnapshotDiscount(previous[w]),
     current |-> SnapshotDiscount(scraped_data[w]),
     limit |-> PriceLimit(UserTable[u]),
     notify |-> notify,
     result |-> success,
     baseline |-> lastNotified[<<u, url[w]>>],
     retryDue |-> undelivered[<<u, url[w]>>] /\ scraped_data[w] = previous[w],
     failedBefore |-> <<u, FALSE>> \in sent[w]]

\* scheduler.py:160-165 and 172-221  one pass of the loop over usernames:
\* look the user up, decide, and send when the decision says so.  send_pushover
\* answers True or False or raises; the handler of 220-221 logs an exception.
CheckAndNotifyUser(w) ==
    /\ pc[w] = "notify"
    /\ usernames[w] # <<>>
    /\ LET u == Head(usernames[w])
           user == UserTable[u]
           pair == <<u, url[w]>>
           current_discount_percent ==
               DiscountPercent(scraped_data[w].price, scraped_data[w].average_price)
           previous_discount_percent == SnapshotDiscount(previous[w])
           should_notify == ShouldNotify(previous_discount_percent,
                                         current_discount_percent, PriceLimit(user))
       IN /\ usernames' = [usernames EXCEPT ![w] = Tail(@)]
          /\ evaluated' = [evaluated EXCEPT ![w] = @ \cup {u}]
          /\ IF ~user.pushover_code
             THEN /\ lastEval' = [lastEval EXCEPT ![w] =
                                    Evaluation(w, u, FALSE, FALSE, "none")]
                  /\ undelivered' = [undelivered EXCEPT ![pair] = FALSE]
                  /\ UNCHANGED <<sent, lastNotified>>
             ELSE IF ~should_notify
             THEN /\ lastEval' = [lastEval EXCEPT ![w] =
                                    Evaluation(w, u, TRUE, FALSE, "none")]
                  /\ undelivered' = [undelivered EXCEPT ![pair] = FALSE]
                  /\ UNCHANGED <<sent, lastNotified>>
             ELSE \E success \in {"ok", "failed", "raised"} :
                  /\ lastEval' = [lastEval EXCEPT ![w] =
                                    Evaluation(w, u, TRUE, TRUE, success)]
                  /\ sent' = [sent EXCEPT ![w] = @ \cup {<<u, success = "ok">>}]
                  /\ lastNotified' = [lastNotified EXCEPT ![pair] =
                                        IF success = "ok"
                                        THEN current_discount_percent ELSE @]
                  /\ undelivered' = [undelivered EXCEPT ![pair] = success # "ok"]
    /\ UNCHANGED <<ctlVars, pc, sleep_seconds, session, unique_urls, url_to_users,
                   url, previous, scraped_data, dbVars, od_url, nrVars, anVars, usVars, fetchCount,
                   outcome, overtaken, lagHist>>

\* scheduler.py:160, 167  every username was checked: log, return
RefreshDone(w) ==
    /\ pc[w] = "notify"
    /\ usernames[w] = <<>>
    /\ Return(w, "done")
    /\ UNCHANGED <<ctlVars, sleep_seconds, session, unique_urls, url_to_users, url,
                   usernames, dbVars, od_url, nrVars, anVars, usVars, fetchCount, evaluated, sent,
                   notifyHist, overtaken, lagHist>>

\* ------------------------------------- on-demand request, get_product_details
\* app copy.py:42-81  look the snapshot up; answer from it when it is less
\* than an hour old, otherwise go and fetch
OnDemandRequest(u) ==
    /\ od_url = NoName
    /\ IF persisted[u] # None /\ is_recent[u]
       THEN UNCHANGED od_url
       ELSE od_url' = u
    /\ UNCHANGED <<ctlVars, pc, sleep_seconds, session, cycleVars, dbVars, nrVars, anVars, usVars,
                   cycleHist, notifyHist, overtaken, lagHist>>

\* app copy.py:83-93, 176-199  analyze_product (buywisely.py:115, a plain
\* function) fetches and analyses; asyncio.run is then handed its return value,
\* not a coroutine, and raises, so the request answers with an error entry and
\* the update of 122-150 is never reached
OnDemandFetch ==
    /\ od_url # NoName
    /\ \E got \in BOOLEAN :
         overtaken' = [w \in Workers |->
                         IF got /\ url[w] = od_url /\ pc[w] \in {"commit", "notify"}
                         THEN TRUE ELSE overtaken[w]]
    /\ od_url' = NoName
    /\ UNCHANGED <<ctlVars, pc, sleep_seconds, session, cycleVars, dbVars, nrVars, anVars, usVars,
                   cycleHist, notifyHist, lagHist>>

\* app copy.py:56-57  an hour goes by: every stored row is now stale
HourPasses ==
    /\ \E u \in Urls : is_recent[u]
    /\ is_recent' = [u \in Urls |-> FALSE]
    /\ UNCHANGED <<ctlVars, pc, sleep_seconds, session, cycleVars, watchlist,
                   persisted, od_url, nrVars, anVars, usVars, cycleHist, notifyHist, overtaken,
                   lagHist>>

\* ------------------------------------------------- next-run calculation
\* scheduler.py:42-47 on its own: from a clock reading to next_run
ComputeNextRun ==
    /\ nr_now # None
    /\ nr_next = None
    /\ nr_next' = NextRun(nr_now)
    /\ UNCHANGED <<ctlVars, pc, sleep_seconds, session, cycleVars, dbVars, od_url,
                   nr_now, anVars, usVars, cycleHist, notifyHist, overtaken, lagHist>>

\* ------------------------------------------- analysis of a fetched payload
\* scraper.py:84, 145-342  scrape_product_async(url, excluded_retailers) on the
\* payload the page delivered
ScrapeProduct ==
    /\ caller = "none"
    /\ LET a == scrape_product_async(raw_data, excluded_retailers)
       IN /\ result' = a.result
          /\ data' = a.data
          /\ retailer_current_prices' = a.retailer_current_prices
    /\ caller' = "scraper"
    /\ UNCHANGED <<raw_data, excluded_retailers, product, product_before, notified>>
    /\ UNCHANGED <<ctlVars, pc, sleep_seconds, session, cycleVars, dbVars, od_url,
                   nrVars, usVars, cycleHist, notifyHist, overtaken, lagHist>>

\* buywisely.py:115-206  analyze_product(product_url, excluded_retailers) on
\* the payload get_raw_data returned
AnalyzeProduct ==
    /\ caller = "none"
    /\ LET a == analyze_product(raw_data, excluded_retailers)
       IN /\ result' = a.result
          /\ data' = a.data
          /\ retailer_current_prices' = a.retailer_current_prices
    /\ caller' = "direct"
    /\ UNCHANGED <<raw_data, excluded_retailers, product, product_before, notified>>
    /\ UNCHANGED <<ctlVars, pc, sleep_seconds, session, cycleVars, dbVars, od_url,
                   nrVars, usVars, cycleHist, notifyHist, overtaken, lagHist>>

StoreAlways(row, scraped_data_) ==
    IF scraped_data_ = None THEN [price |-> 0, average_price |-> 0]
    ELSE [price |-> scraped_data_.price, average_price |-> scraped_data_.average_price]

\* scheduler.py:115-155  no scraped data: return with the row as it is;
\* otherwise the row takes the new best and average price
StoreScraped(row, scraped_data_) ==
    IF scraped_data_ = None THEN row
    ELSE [price |-> scraped_data_.price, average_price |-> scraped_data_.average_price]

\* the user watching the product: a contact token, no configured threshold,
\* and excluded_retailers as the retailer_exclusions of the row
Watcher == [pushover_code |-> TRUE, price_limit |-> <<>>]

\* scheduler.py:102-170  _refresh_product_price on the payload the page
\* delivered: scrape with no exclusions, store, commit (which may raise and
\* store nothing), then check the watching user and send when the rule says so
RefreshProductPrice ==
    /\ caller = "none"
    /\ LET a == scrape_product_async(raw_data, <<>>)
       IN /\ result' = a.result
          /\ data' = a.data
          /\ retailer_current_prices' = a.retailer_current_prices
          /\ \/ /\ product' = StoreScraped(product, a.result)
                /\ notified' =
                     ( /\ a.result # None
                       /\ Watcher.pushover_code
                       /\ ShouldNotify(SnapshotDiscount(product),
                                       DiscountPercent(a.result.price,
                                                       a.result.average_price),
                                       PriceLimit(Watcher)) )
             \/ a.result # None /\ product' = product /\ notified' = FALSE
    /\ caller' = "scheduler"
    /\ UNCHANGED <<raw_data, excluded_retailers, product_before>>
    /\ UNCHANGED <<ctlVars, pc, sleep_seconds, session, cycleVars, dbVars, od_url,
                   nrVars, usVars, cycleHist, notifyHist, overtaken, lagHist>>

\* ------------------------------------------------- user settings and cache
\* One user's settings behind GET and PUT /api/users/<username>. Flask serves
\* each request on a thread of its own, so the handlers interleave at their
\* file operations. One PUT runs at a time; save_json is taken as one step.
notSettings == <<ctlVars, pc, sleep_seconds, session, cycleVars, dbVars, od_url,
                 nrVars, anVars, cycleHist, notifyHist, overtaken, lagHist>>

\* cache.py:21-39  CacheManager.get: the data of the entry, <<>> for no entry
CacheGet == user_cache

\* app.py:108-113  GET: look the user up in the cache; a hit whose data is
\* true is returned at once
GetCheckCache(g) ==
    /\ get_pc[g] = "idle"
    /\ LET cached_user == CacheGet
       IN IF cached_user # <<>> /\ cached_user[1] # 0
          THEN /\ response' = [response EXCEPT ![g] = cached_user]
               /\ get_pc' = [get_pc EXCEPT ![g] = "done"]
          ELSE /\ response' = [response EXCEPT ![g] = <<>>]
               /\ get_pc' = [get_pc EXCEPT ![g] = "load"]
    /\ expect' = [expect EXCEPT ![g] =
                     IF put_done /\ put_pc = "idle" THEN <<users_file>> ELSE <<>>]
    /\ UNCHANGED <<users_file, user_cache, user_data, put_pc, put_done>>
    /\ UNCHANGED notSettings

\* app.py:115-116  GET: read the users file; a user without entry reads as {}
GetLoad(g) ==
    /\ get_pc[g] = "load"
    /\ user_data' = [user_data EXCEPT ![g] = users_file]
    /\ get_pc' = [get_pc EXCEPT ![g] = "set"]
    /\ UNCHANGED <<users_file, user_cache, put_pc, response, expect, put_done>>
    /\ UNCHANGED notSettings

\* app.py:118-120, cache.py:41-53  GET: cache what was read and return it
GetSetCache(g) ==
    /\ get_pc[g] = "set"
    /\ user_cache' = <<user_data[g]>>
    /\ response' = [response EXCEPT ![g] = <<user_data[g]>>]
    /\ get_pc' = [get_pc EXCEPT ![g] = "done"]
    /\ UNCHANGED <<users_file, user_data, put_pc, expect, put_done>>
    /\ UNCHANGED notSettings

\* the response is delivered and the handler serves the next request
GetReturn(g) ==
    /\ get_pc[g] = "done"
    /\ get_pc' = [get_pc EXCEPT ![g] = "idle"]
    /\ response' = [response EXCEPT ![g] = <<>>]
    /\ expect' = [expect EXCEPT ![g] = <<>>]
    /\ user_data' = [user_data EXCEPT ![g] = 0]
    /\ UNCHANGED <<users_file, user_cache, put_pc, put_done>>
    /\ UNCHANGED notSettings

\* app.py:122-125  PUT: load the users file, set the user's entry to the
\* request body, save the file
PutSave(body) ==
    /\ put_pc = "idle"
    /\ users_file' = body
    /\ put_pc' = "saved"
    /\ expect' = [g \in Gets |-> <<>>]
    /\ UNCHANGED <<user_cache, get_pc, user_data, response, put_done>>
    /\ UNCHANGED notSettings

\* app.py:127-130, cache.py:55-59  PUT: delete the cache entry and return
PutInvalidate ==
    /\ put_pc = "saved"
    /\ user_cache' = <<>>
    /\ put_pc' = "idle"
    /\ put_done' = TRUE
    /\ UNCHANGED <<users_file, get_pc, user_data, response, expect>>
    /\ UNCHANGED notSettings

\* cache.py:31-34  the entry's ttl runs out: the next get finds it expired
CacheExpires ==
    /\ user_cache # <<>>
    /\ user_cache' = <<>>
    /\ UNCHANGED <<users_file, get_pc, user_data, put_pc, response, expect, put_done>>
    /\ UNCHANGED notSettings

\* ------------------------------------------------------ specifications
WorkerStep(w) ==
    \/ LoopCheck(w)
    \/ CalcNextRun(w)
    \/ WaitCheck(w)
    \/ SleepOneChunk(w)
    \/ DueCheck(w)
    \/ Backoff(w)
    \/ OpenSession(w)
    \/ QueryWatchlist(w)
    \/ NextUrl(w)
    \/ RefreshRead(w)
    \/ Scrape(w)
    \/ Commit(w)
    \/ CheckAndNotifyUser(w)
    \/ RefreshDone(w)
    \/ Delay(w)
    \/ CloseSession(w)

\* the scheduler is started and left running
Next ==
    \/ Start
    \/ \E w \in Workers : WorkerStep(w)

Spec == Init /\ [][Next]_vars

\* the worker thread, once started, keeps being scheduled: its sleeps end and
\* its calls return
SpecFair == Spec /\ \A w \in Workers : WF_vars(WorkerStep(w))

\* the scheduler runs while product-details requests arrive
NextRace ==
    \/ Next
    \/ \E u \in Urls : OnDemandRequest(u)
    \/ OnDemandFetch
    \/ HourPasses

\* the race concerns one stored row, whoever watches it: one user's rows
InitRace ==
    /\ InitCommon
    /\ watchlist \in Watchlists({"alice"} \X Urls)
    /\ nr_now = None
    /\ nr_next = None
    /\ AnalysisIdle

SpecRace == InitRace /\ [][NextRace]_vars

\* the first call of start()
StartOnce == thread = 0 /\ Start

\* the scheduler is started once, and stopped
NextLoop ==
    \/ StartOnce
    \/ \E w \in Workers : WorkerStep(w)
    \/ Stop
    \/ StopReturn

SpecLoop == Init /\ [][NextLoop]_vars

\* the steps a worker can take over an empty watchlist: the loop, and cycles
\* that find no product
LoopStep(w) ==
    \/ LoopCheck(w)
    \/ CalcNextRun(w)
    \/ WaitCheck(w)
    \/ SleepOneChunk(w)
    \/ DueCheck(w)
    \/ Backoff(w)
    \/ OpenSession(w)
    \/ QueryWatchlist(w)
    \/ NextUrl(w)
    \/ CloseSession(w)

\* start() and stop() are called in any order, from any thread, start() also
\* while a stop() waits in join
NextStartStop ==
    \/ Start
    \/ Stop
    \/ StopReturn
    \/ \E w \in Workers : LoopStep(w)

\* GET and PUT requests for one user's settings
NextSettings ==
    \/ \E g \in Gets : GetCheckCache(g) \/ GetLoad(g) \/ GetSetCache(g) \/ GetReturn(g)
    \/ \E body \in SettingsBodies : PutSave(body)
    \/ PutInvalidate
    \/ CacheExpires

InitSettings ==
    /\ InitCommon
    /\ watchlist = <<>>
    /\ nr_now = None
    /\ nr_next = None
    /\ AnalysisIdle

SpecSettings == InitSettings /\ [][NextSettings]_vars

InitStartStop ==
    /\ InitCommon
    /\ watchlist = <<>>
    /\ nr_now = None
    /\ nr_next = None
    /\ AnalysisIdle

SpecStartStop == InitStartStop /\ [][NextStartStop]_vars

\* the next-run calculation over the clock readings
InitNextRun ==
    /\ InitCommon
    /\ watchlist = <<>>
    /\ nr_now \in Clock
    /\ nr_next = None
    /\ AnalysisIdle

SpecNextRun == InitNextRun /\ [][ComputeNextRun]_vars

\* a payload was fetched for a product that has a stored row; one of the
\* callers analyses it
InitAnalysis ==
    /\ InitCommon
    /\ watchlist = <<>>
    /\ nr_now = None
    /\ nr_next = None
    /\ raw_data \in RawPayloads
    /\ excluded_retailers \in ExclusionLists
    /\ data = <<>>
    /\ retailer_current_prices = <<>>
    /\ result = None
    /\ caller = "none"
    /\ product = PriorSnapshot
    /\ product_before = product
    /\ notified = FALSE

NextAnalysis ==
    \/ ScrapeProduct
    \/ AnalyzeProduct
    \/ RefreshProductPrice

SpecAnalysis == InitAnalysis /\ [][NextAnalysis]_vars

\* ------------------------------------------------------------- properties
Eq(x, y) == x.n * y.d = y.n * x.d

Evaluated(w) == lastEval[w].user # NoName

\* usernames that have a watchlist row for URL u
Watchers(u) == { r[1] : r \in { q \in Range(watchlist) : q[2] = u } }

RowCount(p) == Cardinality({ i \in 1..Len(watchlist) : watchlist[i] = p })

\* C1: for a user with a contact token the refresh decides to notify exactly
\* when the current discount is >= the user's threshold, > the previous
\* discount and > 1; (5, 10, 8) notifies, (10, 10, 8), (0, 3, 8) and
\* (0, 0.5, 0) do not.
C1_NotifyRule ==
    /\ \A w \in Workers :
         Evaluated(w) /\ lastEval[w].token =>
            ( lastEval[w].notify <=>
                /\ Ge(lastEval[w].current, Pct(lastEval[w].limit))
                /\ Gt(lastEval[w].current, lastEval[w].previous)
                /\ Gt(lastEval[w].current, Pct(1)) )
    /\ ShouldNotify(Pct(5), Pct(10), 8)
    /\ ~ShouldNotify(Pct(10), Pct(10), 8)
    /\ ~ShouldNotify(Pct(0), Pct(3), 8)
    /\ ~ShouldNotify(Pct(0), Half, 0)

\* a user with threshold 8 is notified when the discount goes from 5 % to 10 %
C1_Witness ==
    \E w \in Workers :
        /\ Evaluated(w) /\ lastEval[w].token /\ lastEval[w].notify
        /\ lastEval[w].limit = 8
        /\ Eq(lastEval[w].previous, Pct(5))
        /\ Eq(lastEval[w].current, Pct(10))

\* the user just checked has one watchlist row for the URL
SingleRow(w) == RowCount(<<lastEval[w].user, url[w]>>) = 1

\* C2: (for a user with a single watchlist row on the product) the user is
\* notified again for the product only when the new discount strictly exceeds
\* the discount of the last notification delivered to that user for it.
C2_Hysteresis ==
    \A w \in Workers :
        /\ Evaluated(w) /\ SingleRow(w)
        /\ lastEval[w].result = "ok" /\ lastEval[w].baseline # None
        => Gt(lastEval[w].current, lastEval[w].baseline)

\* C3: (for a user with a single watchlist row on the product) after a failed
\* dispatch no second dispatch is attempted in the same cycle, and when the
\* prices are unchanged at the next cycle the user is dispatched the
\* notification then.
C3_FailedDispatchRetried ==
    \A w \in Workers :
        Evaluated(w) /\ lastEval[w].token /\ SingleRow(w)
            => /\ ~(lastEval[w].notify /\ lastEval[w].failedBefore)
               /\ lastEval[w].retryDue => lastEval[w].notify

\* C4: when a cycle completes, every URL of the cycle was fetched, whatever
\* failed for the other URLs, and a URL whose refresh went through had all of
\* its users checked.
C4_FailureIsolation ==
    \A w \in Workers :
        /\ pc[w] = "close" =>
              \A u \in Urls : url_to_users[w][u] # <<>> => fetchCount[w][u] >= 1
        /\ pc[w] = "delay" /\ outcome[w] = "done" =>
              evaluated[w] = Range(url_to_users[w][url[w]])

\* C5: in a cycle that ran through its product list, each distinct watchlist
\* URL was fetched exactly once and no other URL was fetched; the users
\* grouped under a URL, and the users checked for it, are those whose
\* watchlists contain it.
C5_OncePerUrl ==
    \A w \in Workers :
        /\ pc[w] = "close" =>
              \A u \in Urls :
                  /\ fetchCount[w][u] = (IF u \in UniqueUrls(watchlist) THEN 1 ELSE 0)
                  /\ Range(url_to_users[w][u]) = Watchers(u)
        /\ url[w] # NoName => evaluated[w] \subseteq Watchers(url[w])

\* C6: whenever the refresh of a URL is at its notification stage (where every
\* decision and dispatch happens), the new summary is the stored snapshot, and
\* it still is after a dispatch has failed or raised.
C6_PersistBeforeNotify ==
    \A w \in Workers :
        /\ pc[w] = "notify" => persisted[url[w]] = scraped_data[w]
        /\ Evaluated(w) => pc[w] = "notify" /\ persisted[url[w]] = scraped_data[w]
        /\ evaluated[w] # {} => persisted[url[w]] # None

\* a dispatch failed or raised after the new summary overwrote an older one
C6_Witness ==
    \E w \in Workers :
        /\ Evaluated(w) /\ lastEval[w].result \in {"failed", "raised"}
        /\ previous[w] # None /\ previous[w] # scraped_data[w]
        /\ persisted[url[w]] = scraped_data[w]

\* C7: when the commit of the new summary fails, every subscribed user of the
\* URL is still checked in the current cycle.
C7_NotifyDespitePersistFailure ==
    \A w \in Workers :
        pc[w] = "delay" /\ outcome[w] = "commitfail"
            => evaluated[w] = Range(url_to_users[w][url[w]])

\* C8: once a scheduled refresh and a concurrent on-demand refresh of the same
\* URL have both completed, the stored snapshot is the one of the latest fetch
\* (no fetch newer than the stored one has completed).
C8_LatestFetchStored ==
    \A w \in Workers :
        pc[w] = "delay" /\ outcome[w] = "done" /\ od_url # url[w] => ~overtaken[w]

\* C9: a worker never spends more than one sleep increment (60 s) after a stop
\* request without observing it.
C9_StopObservedInTime ==
    \A w \in Workers : lag[w] <= SleepChunk

\* C10: the computed next run is 06:00:00, more than 0 and at most 24 hours
\* after now; from 07:00 it is on the following day, from before 06:00 on the
\* same day.
C10_NextRun ==
    /\ nr_next # None =>
          /\ nr_next.hour = RefreshHour /\ nr_next.minute = 0 /\ nr_next.second = 0
          /\ SecondsOf(nr_next) - SecondsOf(nr_now) > 0
          /\ SecondsOf(nr_next) - SecondsOf(nr_now) <= DaySeconds
          /\ nr_now.hour < RefreshHour => nr_next.day = nr_now.day
    /\ NextRun([day |-> 0, hour |-> 7, minute |-> 0, second |-> 0]) =
          [day |-> 1, hour |-> RefreshHour, minute |-> 0, second |-> 0]

\* at 06:00:00 sharp the next run is a full day ahead
C10_Witness ==
    /\ nr_next # None
    /\ nr_now.hour = RefreshHour /\ nr_now.minute = 0 /\ nr_now.second = 0
    /\ SecondsOf(nr_next) - SecondsOf(nr_now) = DaySeconds

\* ------------------------------------------------- analysis: properties
\* the exclusion list the analysis ran with: the scheduler passes none
Exclusions == IF caller = "scheduler" THEN <<>> ELSE excluded_retailers

Returned == caller # "none" /\ result # None /\ result # Raised

\* the parsed payload holds no two retailers of the same name
NamesDistinct ==
    \A i, j \in DOMAIN data :
        i # j => extract_retailer_name(data[i][1]) # extract_retailer_name(data[j][1])

\* retailer keys of the parsed payload
Keys == { data[i][1] : i \in DOMAIN data }

\* positions <<retailer, entry>> of the retained samples of the retailers
\* whose key is in kept
Samples(kept) ==
    { p \in (DOMAIN data) \X (1..MaxSamples) :
        /\ p[2] <= Len(data[p[1]][2])
        /\ data[p[1]][1] \in kept
        /\ Retained(data[p[1]][2][p[2]]) }

RECURSIVE SumOfSamples(_)
SumOfSamples(S) ==
    IF S = {} THEN 0
    ELSE LET p == CHOOSE q \in S : TRUE
         IN data[p[1]][2][p[2]].base_price + SumOfSamples(S \ {p})

EntriesOf(retailer_url) ==
    data[CHOOSE i \in DOMAIN data : data[i][1] = retailer_url][2]

RetainedOf(entries) == { i \in DOMAIN entries : Retained(entries[i]) }

RecentOf(entries) == { i \in RetainedOf(entries) : Recent(entries[i]) }

LatestOf(entries) ==
    { i \in RetainedOf(entries) :
        \A j \in RetainedOf(entries) : entries[i].age <= entries[j].age }

\* a retailer key matches an exclusion entry as a substring, whatever the
\* letter case of either
MatchesIgnoringCase(retailer_url) ==
    \E i \in DOMAIN excluded_retailers :
        Contains(Lower(retailer_url), Lower(excluded_retailers[i]))

\* C11: a retailer whose key matches an exclusion entry, case-insensitively
\* and as a substring, has no aggregate in the result and none of its samples
\* is counted in the pool.
C11_ExcludedRetailerAbsent ==
    caller \in {"scraper", "direct"} /\ result # Raised =>
        /\ \A k \in DOMAIN retailer_current_prices :
               ~MatchesIgnoringCase(retailer_current_prices[k].url)
        /\ result # None =>
               (IF caller = "scraper" THEN result.total_prices_analyzed
                ELSE result.total_prices)
                 = Cardinality(Samples({ u \in Keys : ~MatchesIgnoringCase(u) }))

\* C12: (retailer names distinct) every retailer the analysis did not exclude
\* and that has a retained record has an aggregate, whose current price is
\* the minimum of its recent records or, without recent records, the price of
\* a record with its latest timestamp.
C12_CurrentPricePerRetailer ==
    caller \in {"scraper", "direct"} /\ result # Raised /\ NamesDistinct =>
        \A i \in DOMAIN data :
            LET entries == data[i][2]
            IN ~IsExcluded(data[i][1], excluded_retailers) /\ RetainedOf(entries) # {} =>
                 \E k \in DOMAIN retailer_current_prices :
                     /\ retailer_current_prices[k].url = data[i][1]
                     /\ IF RecentOf(entries) # {}
                        THEN /\ \E r \in RecentOf(entries) :
                                   retailer_current_prices[k].price = entries[r].base_price
                             /\ \A r \in RecentOf(entries) :
                                   retailer_current_prices[k].price <= entries[r].base_price
                        ELSE \E r \in LatestOf(entries) :
                                   retailer_current_prices[k].price = entries[r].base_price

\* C13: the best price of a result is the lowest current price of its
\* retailers, the best retailer is one that holds it, and the retailer list
\* analyze_product returns is in ascending order of price.
C13_BestIsMinimum ==
    LET rcp == retailer_current_prices
    IN /\ caller \in {"scraper", "scheduler"} /\ result # None =>
             /\ \A k \in DOMAIN rcp : result.price <= rcp[k].price
             /\ \E k \in DOMAIN rcp :
                   /\ rcp[k].price = result.price
                   /\ rcp[k].url = result.retailer
                   /\ rcp[k].name = result.retailer_name
       /\ caller = "direct" /\ Returned =>
             /\ result.all_retailers = rcp
             /\ \A k \in DOMAIN rcp : result.best_price <= rcp[k].price
             /\ \E k \in DOMAIN rcp :
                   /\ rcp[k].price = result.best_price
                   /\ rcp[k].url = result.best_url
                   /\ rcp[k].name = result.best_retailer
             /\ \A k \in 1..(Len(rcp) - 1) : rcp[k].price <= rcp[k + 1].price

\* two retailers, the cheaper one second in the payload
C13_Witness ==
    /\ caller = "direct" /\ Returned
    /\ Len(result.all_retailers) = 2
    /\ result.all_retailers[1].url = data[2][1]
    /\ result.all_retailers[1].price < result.all_retailers[2].price

\* 40.00 eight days old, 35.00 three days old, 38.00 one day old
ExamplePayload ==
    [shape |-> "mapping",
     items |-> << << <<"c">>, ListOf(<< Entry("ok", 8, 4000), Entry("ok", 3, 3500),
                                        Entry("ok", 1, 3800) >>) >> >>]

ExampleScraped == scrape_product_async(ExamplePayload, <<>>).result

ExampleAnalyzed == analyze_product(ExamplePayload, <<>>).result

C15_AbsentIsSkipped ==
    /\ caller \in {"scraper", "scheduler"}
         /\ (\A i \in DOMAIN data :
                \/ IsExcluded(data[i][1], Exclusions)
                \/ RetainedOf(data[i][2]) = {})
         => result = None
    /\ caller = "scheduler" /\ result = None => product = product_before

\* the scheduled refresh of a product whose payload holds entries, none of
\* them retained
C15_Witness ==
    /\ caller = "scheduler" /\ result = None
    /\ data # <<>> /\ data[1][2] # <<>>
    /\ product = PriorSnapshot

\* C16: a raw payload that is a single object carrying a price and a
\* timestamp is normalised to one retailer holding one entry with that price.
C16_SingleObjectWrapped ==
    caller # "none" /\ raw_data = SingleObject /\ result # Raised =>
        /\ Len(data) = 1
        /\ Len(data[1][2]) = 1
        /\ data[1][2][1].base_price = 3500

\* C17: normalisation and analysis never raise: a payload that is neither a
\* mapping nor a list gives an empty mapping, only the list values of a
\* mapping are kept, and entries with a missing or unparseable timestamp are
\* left out of the pool without failing the call.
C17_NeverRaises ==
    caller # "none" =>
        /\ result # Raised
        /\ raw_data.shape = "scalar" => data = <<>>
        /\ raw_data.shape = "mapping" =>
              /\ Len(data) = Cardinality({ i \in DOMAIN raw_data.items :
                                            raw_data.items[i][2].isList })
              /\ result # None =>
                    (IF caller = "direct" THEN result.total_prices
                     ELSE result.total_prices_analyzed)
                      = Cardinality(Samples({ u \in Keys : ~IsExcluded(u, Exclusions) }))

\* C18: the previous discount a check is given is derived from the snapshot
\* that was stored for the URL when the refresh began, as (average - best) /
\* average * 100, and is 0 without a snapshot or with a zero price; whether a
\* notification was ever delivered plays no part.
C18_PreviousFromSnapshot ==
    /\ \A w \in Workers :
          /\ pc[w] \in {"scrape", "commit"} => previous[w] = persisted[url[w]]
          /\ Evaluated(w) =>
                IF \/ previous[w] = None
                   \/ previous[w].price = 0
                   \/ previous[w].average_price = 0
                THEN lastEval[w].previous.n = 0
                ELSE lastEval[w].previous.n * previous[w].average_price
                       = (previous[w].average_price - previous[w].price) * 100
                           * lastEval[w].previous.d
    /\ DiscountPercent(0, 200).n = 0
    /\ DiscountPercent(180, 0).n = 0
    /\ SnapshotDiscount(None).n = 0

\* a check is given a previous discount of 10 % for which the user was never
\* notified
C18_Witness ==
    \E w \in Workers :
        /\ Evaluated(w) /\ previous[w] # None
        /\ Eq(lastEval[w].previous, Pct(10))
        /\ lastNotified[<<lastEval[w].user, url[w]>>] = None

\* C19: (retailer names distinct) when no retailer has a recent record, the
\* current price of a retailer is that of its record with the latest
\* timestamp, the lowest one when several records share it.
C19_FallbackTieBreak ==
    /\ caller = "scraper" /\ result # None /\ NamesDistinct
    /\ \A i \in DOMAIN data :
          IsExcluded(data[i][1], excluded_retailers) \/ RecentOf(data[i][2]) = {}
    => \A k \in DOMAIN retailer_current_prices :
          LET entries == EntriesOf(retailer_current_prices[k].url)
          IN /\ \E r \in LatestOf(entries) :
                   retailer_current_prices[k].price = entries[r].base_price
             /\ \A r \in LatestOf(entries) :
                   retailer_current_prices[k].price <= entries[r].base_price

\* C20: (retailer names distinct) the average price of every retailer of the
\* result is the mean of all of its retained prices.
C20_RetailerAverage ==
    caller \in {"scraper", "direct"} /\ Returned /\ NamesDistinct =>
        \A k \in DOMAIN retailer_current_prices :
            LET entries == EntriesOf(retailer_current_prices[k].url)
                prices == RetailerPrices(entries)
            IN retailer_current_prices[k].avg_price.n * Len(prices)
                 = Sum(prices) * retailer_current_prices[k].avg_price.d

\* a sample the claim allows to contribute: a timestamp in an accepted
\* format, not older than the retention window, a price above zero
Valid(e) == e.created_at = "ok" /\ e.age <= RetentionDays /\ e.base_price > 0

ValidOf(entries) == { i \in DOMAIN entries : Valid(entries[i]) }

ValidSamples ==
    { p \in (DOMAIN data) \X (1..MaxSamples) :
        /\ p[2] <= Len(data[p[1]][2])
        /\ ~IsExcluded(data[p[1]][1], Exclusions)
        /\ Valid(data[p[1]][2][p[2]]) }

RECURSIVE SumOfEntries(_, _)
SumOfEntries(entries, S) ==
    IF S = {} THEN 0
    ELSE LET i == CHOOSE j \in S : TRUE
         IN entries[i].base_price + SumOfEntries(entries, S \ {i})

\* C21: the samples counted in the pool and in its average are exactly the
\* entries with a parseable timestamp inside the retention window and a price
\* above zero; every retailer's current price is the price of such an entry
\* and its average is made of such entries only.
C21_OnlyValidSamples ==
    Returned =>
        /\ (IF caller = "direct" THEN result.total_prices
            ELSE result.total_prices_analyzed) = Cardinality(ValidSamples)
        /\ LET diff == result.average_price * Cardinality(ValidSamples)
                         - SumOfSamples(ValidSamples)
           IN /\ 2 * diff <= Cardinality(ValidSamples)
              /\ 2 * (0 - diff) <= Cardinality(ValidSamples)
        /\ \A k \in DOMAIN retailer_current_prices :
              LET a == retailer_current_prices[k]
                  entries == EntriesOf(a.url)
                  V == ValidOf(entries)
              IN /\ \E i \in V : a.price = entries[i].base_price
                 /\ \/ a.avg_price.n * Cardinality(V)
                         = SumOfEntries(entries, V) * a.avg_price.d
                    \/ \E i \in V : a.avg_price.n = entries[i].base_price * a.avg_price.d

\* a result over one retailer holding a valid entry, one older than the
\* retention window and one with price zero
C21_Witness ==
    /\ caller = "scraper" /\ Returned
    /\ Len(data) = 1
    /\ \E i, j, k \in DOMAIN data[1][2] :
          /\ Valid(data[1][2][i])
          /\ data[1][2][j].created_at = "ok" /\ data[1][2][j].age > RetentionDays
          /\ data[1][2][k].base_price = 0

\* C22: when the watchlist query fails, the cycle ends with no product
\* processed, the worker returns to the scheduler loop with the scheduler still
\* running, and it goes on to start a refresh cycle again.
C22_QueryFailureSurvived ==
    /\ [](\A w \in Workers :
            pc[w] = "failed" =>
                /\ running
                /\ unique_urls[w] = {}
                /\ \A u \in Urls : fetchCount[w][u] = 0)
    /\ [][\A w \in Workers :
            pc[w] = "failed" /\ pc'[w] # "failed" =>
                /\ pc'[w] = "loop"
                /\ running'
                /\ persisted' = persisted
                /\ lastNotified' = lastNotified]_vars
    /\ \A w \in Workers : (pc[w] = "failed") ~> (pc[w] = "open")

\* the query failed over a watchlist that holds products
C22_Witness ==
    \E w \in Workers :
        /\ pc[w] = "failed" /\ running
        /\ watchlist # <<>>

\* C24: at most one scheduler worker loop is alive at any time, whatever the
\* order of the start() and stop() calls.
C24_AtMostOneWorker ==
    Cardinality({ w \in Workers : Alive(w) }) <= 1

InRefresh(w) == pc[w] \in {"read", "scrape", "commit", "notify"}

\* C23: a worker refreshes one product at a time; however the refresh of a
\* product ends (done, no data, a failed commit, a failed read), the worker
\* next sleeps the 2-second delay, and only after it takes the next product.
C23_DelayBetweenProducts ==
    [][\A w \in Workers :
          /\ InRefresh(w) /\ ~InRefresh(w)' =>
                pc'[w] = "delay" /\ outcome'[w] \in {"done", "nodata", "commitfail", "skipped"}
          /\ pc[w] = "delay" /\ pc'[w] # "delay" =>
                /\ pc'[w] = "next"
                /\ stopPending[w] => lag'[w] = Min(lag[w] + ProductDelay, LagCap)
          /\ ~InRefresh(w) /\ InRefresh(w)' =>
                /\ pc[w] = "next" /\ pc'[w] = "read"
                /\ url'[w] \in unique_urls[w]
          /\ pc[w] # "next" /\ pc'[w] = "next" => pc[w] \in {"query", "delay"}]_vars

\* the second product of a cycle is taken up
C23_Witness ==
    \E w \in Workers :
        /\ pc[w] = "read"
        /\ \E u \in Urls \ {url[w]} : fetchCount[w][u] > 0

\* C25: when the fetch of a URL gives no data (scrape_product_async returns
\* None, also after an error of its own), the stored snapshot of every URL and
\* its freshness stay as they were and no user is checked or notified for
\* that URL in the cycle.
C25_NoDataLeavesSnapshot ==
    /\ [](\A w \in Workers :
            outcome[w] = "nodata" => sent[w] = {} /\ evaluated[w] = {})
    /\ [][\A w \in Workers :
            pc[w] = "scrape" /\ pc'[w] # "commit" /\ pc'[w] # "scrape" =>
                /\ outcome'[w] = "nodata"
                /\ persisted' = persisted
                /\ persisted[url[w]] = previous[w]
                /\ is_recent' = is_recent
                /\ lastNotified' = lastNotified
                /\ sent'[w] = {}]_vars

\* the fetch gave no data for a URL that has a stored snapshot
C25_Witness ==
    \E w \in Workers :
        /\ outcome[w] = "nodata" /\ pc[w] = "delay"
        /\ persisted[url[w]] # None

\* the threshold of a user, 0 when none is configured
Threshold(u) ==
    IF UserTable[u].price_limit = <<>> THEN 0 ELSE UserTable[u].price_limit[1]

\* C26: a notification is dispatched only to a user with a contact token, and
\* only when the new best price is below the new average with a discount
\* above 1 % and at or above the user's threshold (0 when none is configured);
\* a best price at or above the average never notifies.
C26_DispatchOnlyRealDeals ==
    /\ \A w \in Workers :
          Evaluated(w) /\ lastEval[w].notify =>
              LET best == scraped_data[w].price
                  average == scraped_data[w].average_price
              IN /\ UserTable[lastEval[w].user].pushover_code
                 /\ best < average
                 /\ (average - best) * 100 > NoiseFloor * average
                 /\ (average - best) * 100 >= Threshold(lastEval[w].user) * average
    /\ \A w \in Workers : \A p \in sent[w] : UserTable[p[1]].pushover_code
    /\ \A best \in {200, 210}, before \in {0 - 5, 0}, limit \in {0, 8} :
          ~ShouldNotify(Pct(before), DiscountPercent(best, 200), limit)

\* a user with no configured threshold is sent a notification
C26_Witness ==
    \E w \in Workers :
        /\ Evaluated(w) /\ lastEval[w].notify
        /\ lastEval[w].user = "bob" /\ lastEval[w].result = "ok"
        /\ <<"bob", TRUE>> \in sent[w]

\* C27: in the refresh of a URL, no user who was already sent a notification
\* for it in this cycle is sent another one.
C27_OneDispatchPerPair ==
    [][\A w \in Workers :
          /\ pc[w] = "notify" /\ usernames[w] # <<>>
          /\ usernames'[w] = Tail(usernames[w])
          /\ lastEval'[w].notify /\ lastEval'[w].result = "ok"
          => <<Head(usernames[w]), TRUE>> \notin sent[w]]_vars

\* C28: the scheduled refresh sends the watching user no notification about a
\* deal whose best price comes from a retailer of the user's exclusion list.
C28_NoDealFromExcludedRetailer ==
    caller = "scheduler" /\ notified =>
        ~IsExcluded(result.retailer, excluded_retailers)

\* positions of the retailers of the parsed payload the analysis did not
\* exclude and that have a record of the last RecencyDays days
RecentRetailers ==
    { i \in DOMAIN data :
        /\ ~IsExcluded(data[i][1], Exclusions)
        /\ RecentOf(data[i][2]) # {} }

\* C29: the best price scrape_product_async reports is the lowest recent
\* price of all the retailer keys it did not exclude, also when two keys have
\* the same display name: no key's current price is lost.
C29_NoCurrentPriceLost ==
    caller \in {"scraper", "scheduler"} /\ result # None /\ RecentRetailers # {} =>
        /\ \E i \in RecentRetailers : \E r \in RecentOf(data[i][2]) :
               result.price = data[i][2][r].base_price
        /\ \A i \in RecentRetailers : \A r \in RecentOf(data[i][2]) :
               result.price <= data[i][2][r].base_price

\* C30: a GET that arrives after a PUT has completed, with no other PUT
\* running during it, returns the settings of that PUT, whatever GETs ran
\* alongside the PUT; and once the PUT has invalidated the cache, the cache
\* holds no settings a GET would serve other than those of the users file.
C30_GetAfterPutIsFresh ==
    /\ \A g \in Gets :
           get_pc[g] = "done" /\ expect[g] # <<>> => response[g] = expect[g]
    /\ put_done /\ put_pc = "idle" /\ user_cache # <<>> /\ user_cache[1] # 0 =>
           user_cache[1] = users_file

====
